---- MODULE Spec2Model ----
(***************************************************************************)
(* Control de Gastos: the console program (control_gastos.py) and the      *)
(* desktop program (control_gastos_app.py) over one ledger file.           *)
(*                                                                         *)
(* Text is a sequence of one-character strings.  A Decimal with two        *)
(* places is its integer number of cents (Decimal('-0.00') and             *)
(* Decimal('0.00') are the same number and are not told apart).  A date is *)
(* a record [year, month, day].                                            *)
(***************************************************************************)
EXTENDS Integers, Sequences, FiniteSets, TLC

(***************************************************************************)
(* Text: str.strip, str.lower, str comparison, str.replace                 *)
(***************************************************************************)
DigitChars == {"0", "1", "2", "3", "4", "5", "6", "7", "8", "9"}

\* int(c) of a digit character
DigitVal(c) ==
  CASE c = "0" -> 0 [] c = "1" -> 1 [] c = "2" -> 2 [] c = "3" -> 3 [] c = "4" -> 4
    [] c = "5" -> 5 [] c = "6" -> 6 [] c = "7" -> 7 [] c = "8" -> 8 [] c = "9" -> 9

\* the digit character of 0..9
DigitChar(n) ==
  CASE n = 0 -> "0" [] n = 1 -> "1" [] n = 2 -> "2" [] n = 3 -> "3" [] n = 4 -> "4"
    [] n = 5 -> "5" [] n = 6 -> "6" [] n = 7 -> "7" [] n = 8 -> "8" [] n = 9 -> "9"

\* ord(c), for the characters the model types in
Ord(c) ==
  CASE c = " " -> 32 [] c = "+" -> 43 [] c = "," -> 44 [] c = "-" -> 45 [] c = "." -> 46
    [] c \in DigitChars -> 48 + DigitVal(c)
    [] c = "A" -> 65 [] c = "B" -> 66 [] c = "C" -> 67 [] c = "I" -> 73
    [] c = "a" -> 97 [] c = "b" -> 98 [] c = "c" -> 99 [] c = "f" -> 102
    [] c = "n" -> 110 [] c = "x" -> 120
    [] OTHER -> 63

\* c.lower() of one character
LowerChar(c) ==
  CASE c = "A" -> "a" [] c = "B" -> "b" [] c = "C" -> "c" [] c = "I" -> "i"
    [] OTHER -> c

\* s.lower()
Lower(s) == [i \in 1..Len(s) |-> LowerChar(s[i])]

\* s < t in Python's string order (code points, a proper prefix first)
RECURSIVE StrLess(_, _)
StrLess(s, t) ==
  IF t = <<>> THEN FALSE
  ELSE IF s = <<>> THEN TRUE
  ELSE IF Ord(Head(s)) # Ord(Head(t)) THEN Ord(Head(s)) < Ord(Head(t))
  ELSE StrLess(Tail(s), Tail(t))

\* s.lstrip()
RECURSIVE LStrip(_)
LStrip(s) == IF s # <<>> /\ Head(s) = " " THEN LStrip(Tail(s)) ELSE s

\* s.rstrip()
RECURSIVE RStrip(_)
RStrip(s) ==
  IF s # <<>> /\ s[Len(s)] = " " THEN RStrip(SubSeq(s, 1, Len(s) - 1)) ELSE s

\* s.strip()
Strip(s) == RStrip(LStrip(s))

\* s.replace(",", ".")
ReplaceComma(s) == [i \in 1..Len(s) |-> IF s[i] = "," THEN "." ELSE s[i]]

\* the elements of a sequence
Range(s) == {s[i] : i \in 1..Len(s)}

\* 10 ** n
RECURSIVE Pow10(_)
Pow10(n) == IF n = 0 THEN 1 ELSE 10 * Pow10(n - 1)

\* int(s) of a sequence of digit characters (0 for the empty one)
RECURSIVE DigitsVal(_)
DigitsVal(s) ==
  IF s = <<>> THEN 0
  ELSE 10 * DigitsVal(SubSeq(s, 1, Len(s) - 1)) + DigitVal(s[Len(s)])

\* str(n) of a natural number
RECURSIVE NatStr(_)
NatStr(n) == IF n < 10 THEN <<DigitChar(n)>> ELSE NatStr(n \div 10) \o <<DigitChar(n % 10)>>

\* n written with at least w digits, zero padded on the left
RECURSIVE ZeroPad(_, _)
ZeroPad(s, w) == IF Len(s) >= w THEN s ELSE ZeroPad(<<"0">> \o s, w)

Abs(n) == IF n < 0 THEN -n ELSE n

(***************************************************************************)
(* Money: decimal.Decimal restricted to what the programs do with it       *)
(***************************************************************************)
\* Decimal(text): the constructor's reading of a numeric string.  It strips
\* surrounding whitespace, takes an optional sign, then digits with at most one
\* decimal point, or the word Inf; anything else is InvalidOperation (kind
\* "invalid").  Exponents, NaN and underscores are outside the typed alphabet.
DecimalBody(neg, body) ==
  LET dots == {i \in 1..Len(body) : body[i] = "."}
      digs == SelectSeq(body, LAMBDA c : c \in DigitChars)
      wellformed == /\ \A i \in 1..Len(body) : body[i] \in DigitChars \cup {"."}
                    /\ Cardinality(dots) <= 1
                    /\ digs # <<>>
  IN [kind |-> IF Lower(body) = <<"i", "n", "f">> THEN "inf"
               ELSE IF wellformed THEN "num" ELSE "invalid",
      neg |-> neg,
      coef |-> IF wellformed THEN DigitsVal(digs) ELSE 0,
      scale |-> IF wellformed /\ dots # {}
                THEN Len(body) - (CHOOSE i \in dots : TRUE) ELSE 0]

DecimalSigned(t) ==
  DecimalBody(t # <<>> /\ t[1] = "-",
              IF t # <<>> /\ t[1] \in {"-", "+"} THEN Tail(t) ELSE t)

Decimal(text) == DecimalSigned(Strip(text))

\* dec.quantize(Decimal("0.01"), rounding=ROUND_HALF_UP) of a finite Decimal, in
\* cents: a tie goes away from zero
QuantizeHalfUp(dec) ==
  LET mag == (2 * 100 * dec.coef + Pow10(dec.scale)) \div (2 * Pow10(dec.scale))
  IN IF dec.neg THEN -mag ELSE mag

\* the outcome of a call that may raise: exc is "none" or the exception's class
Returned(v) == [exc |-> "none", val |-> v]
Raised(e) == [exc |-> e, val |-> 0]

\* d(value) of control_gastos.py: ValueError for text Decimal() refuses; the
\* quantize sits outside the try and raises decimal.InvalidOperation for Inf
Quantized(dec) ==
  IF dec.kind = "invalid" THEN Raised("ValueError")
  ELSE IF dec.kind = "inf" THEN Raised("InvalidOperation")
  ELSE Returned(QuantizeHalfUp(dec))

d(value) == Quantized(Decimal(value))

\* d(x) of control_gastos_app.py: the same after replacing "," by "."
App_d(x) == Quantized(Decimal(ReplaceComma(x)))

\* str(amount) of a Decimal with two places, given in cents
DecStr(c) ==
  (IF c < 0 THEN <<"-">> ELSE <<>>) \o NatStr(Abs(c) \div 100) \o <<".">>
    \o ZeroPad(NatStr(Abs(c) % 100), 2)

(***************************************************************************)
(* Dates: datetime.date restricted to what the programs do with it         *)
(***************************************************************************)
Date(y, m, dd) == [year |-> y, month |-> m, day |-> dd]

IsLeap(y) == y % 4 = 0 /\ (y % 100 # 0 \/ y % 400 = 0)

DaysInMonth(y, m) ==
  IF m = 2 THEN (IF IsLeap(y) THEN 29 ELSE 28)
  ELSE IF m \in {4, 6, 9, 11} THEN 30 ELSE 31

\* days before January 1st of year y
DaysBeforeYear(y) ==
  LET p == y - 1 IN p * 365 + p \div 4 - p \div 100 + p \div 400

\* days of year y before the first of month m
RECURSIVE DaysBeforeMonth(_, _)
DaysBeforeMonth(y, m) ==
  IF m = 1 THEN 0 ELSE DaysBeforeMonth(y, m - 1) + DaysInMonth(y, m - 1)

\* date.toordinal()
ToOrdinal(dt) == DaysBeforeYear(dt.year) + DaysBeforeMonth(dt.year, dt.month) + dt.day

RECURSIVE YearOfOrdinal(_, _)
YearOfOrdinal(n, y) == IF DaysBeforeYear(y + 1) < n THEN YearOfOrdinal(n, y + 1) ELSE y

RECURSIVE MonthOfDay(_, _, _)
MonthOfDay(y, m, k) ==
  IF k > DaysInMonth(y, m) THEN MonthOfDay(y, m + 1, k - DaysInMonth(y, m))
  ELSE Date(y, m, k)

\* the k-th day of year y, counted from January 1st
DayOfYear(y, n) == MonthOfDay(y, 1, n - DaysBeforeYear(y))

\* date.fromordinal(n)
FromOrdinal(n) == DayOfYear(YearOfOrdinal(n, n \div 366 + 1), n)

\* dt - timedelta(days=k)
MinusDays(dt, k) == FromOrdinal(ToOrdinal(dt) - k)

\* (a - b).days
DaysBetween(a, b) == ToOrdinal(a) - ToOrdinal(b)

\* a <= b on dates
DateLeq(a, b) ==
  \/ a.year < b.year
  \/ a.year = b.year /\ a.month < b.month
  \/ a.year = b.year /\ a.month = b.month /\ a.day <= b.day

\* start <= dt <= end
Between(start, dt, end) == DateLeq(start, dt) /\ DateLeq(dt, end)

\* dt.isoformat(): YYYY-MM-DD
IsoFormat(dt) ==
  ZeroPad(NatStr(dt.year), 4) \o <<"-">> \o ZeroPad(NatStr(dt.month), 2) \o <<"-">>
    \o ZeroPad(NatStr(dt.day), 2)

\* today.strftime("%Y-%m")
MonthKey(dt) == ZeroPad(NatStr(dt.year), 4) \o <<"-">> \o ZeroPad(NatStr(dt.month), 2)

\* s.split("-")
RECURSIVE SplitDash(_)
SplitDash(s) ==
  IF \A i \in 1..Len(s) : s[i] # "-" THEN <<s>>
  ELSE LET k == CHOOSE i \in 1..Len(s) : s[i] = "-" /\ \A j \in 1..(i - 1) : s[j] # "-"
       IN <<SubSeq(s, 1, k - 1)>> \o SplitDash(SubSeq(s, k + 1, Len(s)))

AllDigits(s) == \A i \in 1..Len(s) : s[i] \in DigitChars

\* datetime.strptime(text, "%Y-%m-%d").date(): four digits of year, one or two
\* of month (1..12) and of day (1..31), and the day must exist in the month
DateOrRaise(y, m, dd) ==
  IF y >= 1 /\ m \in 1..12 /\ dd >= 1 /\ dd <= DaysInMonth(y, m)
  THEN Returned(Date(y, m, dd))
  ELSE Raised("ValueError")

StrpFields(f) ==
  IF /\ Len(f) = 3
     /\ AllDigits(f[1]) /\ Len(f[1]) = 4
     /\ AllDigits(f[2]) /\ Len(f[2]) \in {1, 2}
     /\ AllDigits(f[3]) /\ Len(f[3]) \in {1, 2}
  THEN DateOrRaise(DigitsVal(f[1]), DigitsVal(f[2]), DigitsVal(f[3]))
  ELSE Raised("ValueError")

StrpDate(text) == StrpFields(SplitDash(text))

\* parse_date(s): strips, then strptime; ValueError in both programs
parse_date(s) == StrpDate(Strip(s))

\* month_start(dt) = dt.replace(day=1)
month_start(dt) == Date(dt.year, dt.month, 1)

\* month_end that forgets to step back one day
month_end_first_next(dt) ==
  IF dt.month = 12 THEN Date(dt.year + 1, 1, 1) ELSE Date(dt.year, dt.month + 1, 1)

\* month_end(dt): the first day of the next month minus one day
month_end(dt) ==
  LET first_next == IF dt.month = 12 THEN Date(dt.year + 1, 1, 1)
                    ELSE Date(dt.year, dt.month + 1, 1)
  IN MinusDays(first_next, 1)

\* days_remaining_in_month that does not count today
days_remaining_in_month_excl(today) == DaysBetween(month_end(today), today)

\* days_remaining_in_month(today): today counts
days_remaining_in_month(today) == DaysBetween(month_end(today), today) + 1

(***************************************************************************)
(* The ledger state and its operations                                     *)
(***************************************************************************)
\* default_state(): the five fields, all empty
default_state ==
  [categories |-> <<>>, people |-> <<>>, monthly_incomes |-> <<>>,
   extra_incomes |-> <<>>, expenses |-> <<>>]

\* lst.sort(key=lambda x: x.lower()): a stable sort; x goes before the first
\* element whose key is greater than its own
RECURSIVE InsertByLower(_, _)
InsertByLower(sorted, x) ==
  IF sorted = <<>> THEN <<x>>
  ELSE IF StrLess(Lower(x), Lower(Head(sorted))) THEN <<x>> \o sorted
  ELSE <<Head(sorted)>> \o InsertByLower(Tail(sorted), x)

\* lst.sort() without the key: code point order, capitals first
RECURSIVE InsertByCodePoint(_, _)
InsertByCodePoint(sorted, x) ==
  IF sorted = <<>> THEN <<x>>
  ELSE IF StrLess(x, Head(sorted)) THEN <<x>> \o sorted
  ELSE <<Head(sorted)>> \o InsertByCodePoint(Tail(sorted), x)

RECURSIVE SortByCodePoint(_)
SortByCodePoint(lst) ==
  IF lst = <<>> THEN <<>>
  ELSE InsertByCodePoint(SortByCodePoint(SubSeq(lst, 1, Len(lst) - 1)), lst[Len(lst)])

RECURSIVE SortByLower(_)
SortByLower(lst) ==
  IF lst = <<>> THEN <<>>
  ELSE InsertByLower(SortByLower(SubSeq(lst, 1, Len(lst) - 1)), lst[Len(lst)])

\* ensure_unique_add(lst, item): the value returned and the list afterwards.
\* "item in lst" compares the strings exactly, case included.
UniqueAdd(lst, it) ==
  IF it = <<>> THEN [ret |-> FALSE, lst |-> lst]
  ELSE IF it \in Range(lst) THEN [ret |-> FALSE, lst |-> lst]
  ELSE [ret |-> TRUE, lst |-> SortByLower(Append(lst, it))]

ensure_unique_add(lst, item) == UniqueAdd(lst, Strip(item))

\* asdict(Income(person, amount, month))
Income(person, amount, month) == [person |-> person, amount |-> amount, month |-> month]

\* asdict(ExtraIncome(person, amount, dt, note))
ExtraIncome(person, amount, dt, note) ==
  [person |-> person, amount |-> amount, dt |-> dt, note |-> note]

\* asdict(Expense(amount, category, dt, note))
Expense(amount, category, dt, note) ==
  [amount |-> amount, category |-> category, dt |-> dt, note |-> note]

\* set_monthly_income that never looks for the row: it always appends
set_monthly_income_append(st, person, amount, month_key) ==
  [st EXCEPT !.monthly_incomes = Append(@, Income(person, DecStr(amount), month_key))]

\* set_monthly_income(state, person, amount, month_key): the first row with that
\* person and month gets the amount, else a row is appended
set_monthly_income(st, person, amount, month_key) ==
  LET incomes == st.monthly_incomes
      hits == {i \in 1..Len(incomes) :
                 incomes[i].person = person /\ incomes[i].month = month_key}
  IN IF hits # {}
     THEN LET k == CHOOSE i \in hits : \A j \in hits : i <= j
          IN [st EXCEPT !.monthly_incomes[k].amount = DecStr(amount)]
     ELSE [st EXCEPT !.monthly_incomes =
                       Append(incomes, Income(person, DecStr(amount), month_key))]

\* add_extra_income(state, person, amount, dt, note)
add_extra_income(st, person, amount, dt, note) ==
  [st EXCEPT !.extra_incomes =
     Append(@, ExtraIncome(person, DecStr(amount), IsoFormat(dt), Strip(note)))]

\* add_expense that puts the new row first
add_expense_first(st, amount, category, dt, note) ==
  [st EXCEPT !.expenses =
     <<Expense(DecStr(amount), category, IsoFormat(dt), Strip(note))>> \o @]

\* add_expense(state, amount, category, dt, note)
add_expense(st, amount, category, dt, note) ==
  [st EXCEPT !.expenses =
     Append(@, Expense(DecStr(amount), category, IsoFormat(dt), Strip(note)))]

(***************************************************************************)
(* The summary                                                             *)
(***************************************************************************)
\* the loop "for row in rows: if row['month'] == month_key: base += d(row['amount'])"
RECURSIVE SumMonth(_, _)
SumMonth(rows, month_key) ==
  IF rows = <<>> THEN 0
  ELSE SumMonth(SubSeq(rows, 1, Len(rows) - 1), month_key)
       + (IF rows[Len(rows)].month = month_key THEN d(rows[Len(rows)].amount).val ELSE 0)

\* the loop "for row in rows: dt = parse_date(row['dt']); if start <= dt <= end:
\* total += d(row['amount'])"
RECURSIVE SumWindow(_, _, _)
SumWindow(rows, start, end) ==
  IF rows = <<>> THEN 0
  ELSE SumWindow(SubSeq(rows, 1, Len(rows) - 1), start, end)
       + (IF Between(start, parse_date(rows[Len(rows)].dt).val, end)
          THEN d(rows[Len(rows)].amount).val ELSE 0)

\* totals_for_month(state, today): (base_income, extra_income, expenses); the
\* final quantize of a sum of two-place amounts changes nothing
totals_for_month(st, today) ==
  LET month_key == MonthKey(today)
      start == month_start(today)
      end == month_end(today)
  IN [base |-> SumMonth(st.monthly_incomes, month_key),
      extra |-> SumWindow(st.extra_incomes, start, end),
      exp |-> SumWindow(st.expenses, start, end)]

\* (n / Decimal(k)).quantize(Decimal("0.01")) for n in cents: no rounding is
\* named, so the context's ROUND_HALF_EVEN applies (the quotient's 28 digits hold
\* every tie of a two-place amount over at most 31 days)
DivQuantize(n, k) ==
  LET m == Abs(n)
      q == m \div k
      r == m % k
      mag == IF 2 * r < k THEN q
             ELSE IF 2 * r > k THEN q + 1
             ELSE IF q % 2 = 0 THEN q ELSE q + 1
  IN IF n < 0 THEN -mag ELSE mag

\* remaining_and_per_day(state, today): (remaining, per_day, days_left)
PerDay(remaining, days_left) ==
  [remaining |-> remaining,
   per_day |-> IF days_left > 0 THEN DivQuantize(remaining, days_left) ELSE 0,
   days_left |-> days_left]

Remaining(t) == (t.base + t.extra) - t.exp

remaining_and_per_day(st, today) ==
  PerDay(Remaining(totals_for_month(st, today)), days_remaining_in_month(today))

\* what show_dashboard(state) prints on the day today
Dashboard(month, t, r) ==
  [month |-> month, base |-> t.base, extra |-> t.extra, total |-> t.base + t.extra,
   exp |-> t.exp, remaining |-> r.remaining, days_left |-> r.days_left,
   per_day |-> r.per_day]

show_dashboard(st, today) ==
  Dashboard(MonthKey(today), totals_for_month(st, today), remaining_and_per_day(st, today))

(***************************************************************************)
(* control_gastos_app.py: its own copies of the helpers and operations     *)
(***************************************************************************)
\* parse_date(s) of the app: strptime's ValueError unwrapped
App_parse_date(s) == StrpDate(Strip(s))

App_month_start(dt) == Date(dt.year, dt.month, 1)

App_month_end(dt) ==
  LET first_next == IF dt.month = 12 THEN Date(dt.year + 1, 1, 1)
                    ELSE Date(dt.year, dt.month + 1, 1)
  IN MinusDays(first_next, 1)

App_days_remaining_in_month(today) == DaysBetween(App_month_end(today), today) + 1

\* an ensure_unique_add that compares the names ignoring case
App_UniqueAdd_nocase(lst, it) ==
  IF it = <<>> \/ Lower(it) \in {Lower(lst[i]) : i \in 1..Len(lst)}
  THEN [ret |-> FALSE, lst |-> lst]
  ELSE [ret |-> TRUE, lst |-> SortByLower(Append(lst, it))]

\* ensure_unique_add(lst, item) of the app
App_UniqueAdd(lst, it) ==
  IF it = <<>> \/ it \in Range(lst) THEN [ret |-> FALSE, lst |-> lst]
  ELSE [ret |-> TRUE, lst |-> SortByLower(Append(lst, it))]

App_ensure_unique_add(lst, item) == App_UniqueAdd(lst, Strip(item))

\* set_monthly_income(st, person, amount, month_key) of the app
App_set_monthly_income(st, person, amount, month_key) ==
  LET rows == st.monthly_incomes
      hits == {i \in 1..Len(rows) : rows[i].person = person /\ rows[i].month = month_key}
  IN IF hits # {}
     THEN LET k == CHOOSE i \in hits : \A j \in hits : i <= j
          IN [st EXCEPT !.monthly_incomes[k].amount = DecStr(amount)]
     ELSE [st EXCEPT !.monthly_incomes =
             Append(rows, [person |-> person, amount |-> DecStr(amount),
                           month |-> month_key])]

\* add_extra_income(st, person, amount, dt, note) of the app
App_add_extra_income(st, person, amount, dt, note) ==
  [st EXCEPT !.extra_incomes =
     Append(@, [person |-> person, amount |-> DecStr(amount), dt |-> IsoFormat(dt),
                note |-> Strip(note)])]

\* add_expense(st, category, amount, dt, note) of the app
App_add_expense(st, category, amount, dt, note) ==
  [st EXCEPT !.expenses =
     Append(@, [category |-> category, amount |-> DecStr(amount), dt |-> IsoFormat(dt),
                note |-> Strip(note)])]

RECURSIVE App_SumMonth(_, _)
App_SumMonth(rows, month_key) ==
  IF rows = <<>> THEN 0
  ELSE App_SumMonth(SubSeq(rows, 1, Len(rows) - 1), month_key)
       + (IF rows[Len(rows)].month = month_key
          THEN App_d(rows[Len(rows)].amount).val ELSE 0)

RECURSIVE App_SumWindow(_, _, _)
App_SumWindow(rows, start, end) ==
  IF rows = <<>> THEN 0
  ELSE App_SumWindow(SubSeq(rows, 1, Len(rows) - 1), start, end)
       + (IF Between(start, App_parse_date(rows[Len(rows)].dt).val, end)
          THEN App_d(rows[Len(rows)].amount).val ELSE 0)

\* totals_for_month(st, today) of the app: (base, extra, exp), not quantized
App_totals_for_month(st, today) ==
  LET month_key == MonthKey(today)
      start == App_month_start(today)
      end == App_month_end(today)
  IN [base |-> App_SumMonth(st.monthly_incomes, month_key),
      extra |-> App_SumWindow(st.extra_incomes, start, end),
      exp |-> App_SumWindow(st.expenses, start, end)]

\* what App.refresh_summary() puts in the label
App_Summary(month, t, days_left) ==
  [month |-> month, base |-> t.base, extra |-> t.extra, total |-> t.base + t.extra,
   exp |-> t.exp, remaining |-> (t.base + t.extra) - t.exp, days_left |-> days_left,
   per_day |-> IF days_left > 0
               THEN DivQuantize((t.base + t.extra) - t.exp, days_left) ELSE 0]

refresh_summary(st, today) ==
  App_Summary(MonthKey(today), App_totals_for_month(st, today),
              App_days_remaining_in_month(today))

(***************************************************************************)
(* The running program: console menu or desktop form over the ledger file  *)
(***************************************************************************)
VARIABLES
  prog,     \* which program runs: "console" or "app"
  pc,       \* "boot"; console: "menu", "pick", "amount", "date", "note", "exit",
            \* "crashed"; app: "idle"
  state,    \* the ledger in memory (menu's state, App.state)
  disk,     \* data/control_gastos.json: [exists, content]
  clock,    \* the system date, what date.today() returns
  today,    \* App.today, read once when the window is built
  pend,     \* the console command in progress and its inputs so far
  last,     \* the last step: op is its kind ("load", "add" to a list, "record"
            \* for the three record commands, "" otherwise), ok whether it
            \* updated the ledger, parse whether its parse failed, wrote
            \* whether it called save_state, call a set_monthly_income call
  summary   \* the summary the last step printed (console) or the label (app)

vars == <<prog, pc, state, disk, clock, today, pend, last, summary>>

\* bounds of the model
MaxNames == 2      \* entries per list
MaxRecords == 2    \* records in the three record lists together
MaxTicks == 1      \* midnights passed while the program runs

\* the day the program is started
StartDate == Date(2023, 12, 31)

\* what the user types
CategoryTexts == {<<"a">>, <<" ", "A", " ">>, <<>>, <<" ">>}
PersonTexts == {<<"B">>, <<" ", "a">>, <<>>}
AmountTexts == {<<"1", ",", "5">>, <<" ", ".", "0", "0", "5">>, <<"x">>,
                <<"I", "n", "f">>}
DateTexts == {<<" ", "2", "0", "2", "3", "-", "1", "2", "-", "3", "1">>,
              <<"2", "0", "2", "3", "-", "0", "2", "-", "2", "9">>}
NoteTexts == {<<" ", "n">>}
PickTexts == {<<>>, <<"1">>, <<"2">>, <<"x">>}

\* a ledger file left by an earlier run
PriorState ==
  LET s1 == [default_state EXCEPT !.people = ensure_unique_add(<<>>, <<"B">>).lst]
  IN set_monthly_income(s1, <<"B">>, 150, MonthKey(StartDate))

NoFile == [exists |-> FALSE, content |-> default_state]
File(st) == [exists |-> TRUE, content |-> st]

NoPend == [cmd |-> "", who |-> <<>>, month |-> <<>>, amount |-> 0, dt |-> StartDate]
NoSummary ==
  [month |-> <<>>, base |-> 0, extra |-> 0, total |-> 0, exp |-> 0, remaining |-> 0,
   days_left |-> 0, per_day |-> 0]

\* the record of a step; call holds the arguments of a set_monthly_income call
\* and whether a row with its person and month was there before it
NoCall == [person |-> <<>>, amount |-> 0, month |-> <<>>, existed |-> FALSE]
Step(op, ok, parse, wrote) ==
  [op |-> op, ok |-> ok, parse |-> parse, wrote |-> wrote, call |-> NoCall]

HasPair(st, person, month_key) ==
  \E i \in 1..Len(st.monthly_incomes) :
    st.monthly_incomes[i].person = person /\ st.monthly_incomes[i].month = month_key

StepSet(st, person, amount, month_key) ==
  [op |-> "record", ok |-> TRUE, parse |-> "ok", wrote |-> TRUE,
   call |-> [person |-> person, amount |-> amount, month |-> month_key,
             existed |-> HasPair(st, person, month_key)]]

NumRecords(st) == Len(st.monthly_incomes) + Len(st.extra_incomes) + Len(st.expenses)

\* save_state(state): the whole state overwrites the file
save_state(st) == File(st)

\* load_state that returns the default state without saving it
load_state_unsaved(file) ==
  IF ~file.exists
  THEN [state |-> default_state, disk |-> file, wrote |-> FALSE]
  ELSE [state |-> file.content, disk |-> file, wrote |-> FALSE]

\* load_state(): with no file the default state is saved and returned, else the
\* file's content is returned; [state, disk, wrote]
load_state(file) ==
  IF ~file.exists
  THEN [state |-> default_state, disk |-> save_state(default_state), wrote |-> TRUE]
  ELSE [state |-> file.content, disk |-> file, wrote |-> FALSE]

\* load_state() of the app
App_load_state(file) ==
  IF ~file.exists
  THEN [state |-> default_state, disk |-> save_state(default_state), wrote |-> TRUE]
  ELSE [state |-> file.content, disk |-> file, wrote |-> FALSE]

Init ==
  /\ prog \in {"console", "app"}
  /\ pc = "boot"
  /\ state = default_state
  /\ disk \in {NoFile, File(PriorState)}
  /\ clock = StartDate
  /\ today = StartDate
  /\ pend = NoPend
  /\ last = Step("", FALSE, "none", FALSE)
  /\ summary = NoSummary

\* midnight passes while the console waits at its menu (a command's prompts are
\* answered within the day; the app reads the clock in __init__ only, so its
\* midnights change nothing and are left out)
Tick ==
  /\ prog = "console" /\ pc = "menu"
  /\ DaysBetween(clock, StartDate) < MaxTicks
  /\ clock' = FromOrdinal(ToOrdinal(clock) + 1)
  /\ last' = Step("", FALSE, "none", FALSE)
  /\ summary' = IF prog = "app" THEN summary ELSE NoSummary
  /\ UNCHANGED <<prog, pc, state, disk, today, pend>>

(***************************************************************************)
(* control_gastos.py: menu()                                               *)
(***************************************************************************)
\* state = load_state()
CliBoot ==
  /\ prog = "console" /\ pc = "boot"
  /\ \E r \in {load_state(disk)} :
        /\ state' = r.state
        /\ disk' = r.disk
        /\ last' = Step("load", TRUE, "none", r.wrote)
  /\ pc' = "menu"
  /\ UNCHANGED <<prog, clock, today, pend, summary>>

\* a dashboard that forgets the expenses once it has shown them
CliDashboard_clearing ==
  /\ prog = "console" /\ pc = "menu"
  /\ summary' = show_dashboard(state, clock)
  /\ state' = [state EXCEPT !.expenses = <<>>]
  /\ last' = Step("", FALSE, "none", FALSE)
  /\ UNCHANGED <<prog, pc, disk, clock, today, pend>>

\* choice 1: show_dashboard(state)
CliDashboard ==
  /\ prog = "console" /\ pc = "menu"
  /\ summary' = show_dashboard(state, clock)
  /\ last' = Step("", FALSE, "none", FALSE)
  /\ UNCHANGED <<prog, pc, state, disk, clock, today, pend>>

\* choice 2: a category name is read, stripped and added; saved if added
CliAddCategory(text) ==
  /\ prog = "console" /\ pc = "menu"
  /\ \E r \in {ensure_unique_add(state.categories, Strip(text))} :
        /\ r.ret => Len(state.categories) < MaxNames
        /\ state' = [state EXCEPT !.categories = r.lst]
        /\ disk' = IF r.ret THEN save_state(state') ELSE disk
        /\ last' = Step("add", r.ret, "none", r.ret)
  /\ summary' = NoSummary
  /\ UNCHANGED <<prog, pc, clock, today, pend>>

\* choice 4: the same for a person
CliAddPerson(text) ==
  /\ prog = "console" /\ pc = "menu"
  /\ \E r \in {ensure_unique_add(state.people, Strip(text))} :
        /\ r.ret => Len(state.people) < MaxNames
        /\ state' = [state EXCEPT !.people = r.lst]
        /\ disk' = IF r.ret THEN save_state(state') ELSE disk
        /\ last' = Step("add", r.ret, "none", r.ret)
  /\ summary' = NoSummary
  /\ UNCHANGED <<prog, pc, clock, today, pend>>

\* choices 3 and 5 print a list; any other text prints "Opcion invalida"
CliList(choice) ==
  /\ prog = "console" /\ pc = "menu"
  /\ last' = Step("", FALSE, "none", FALSE)
  /\ summary' = NoSummary
  /\ UNCHANGED <<prog, pc, state, disk, clock, today, pend>>

\* choices 6, 7, 8: pick_from_list returns None at once for an empty list
\* ("continue"), else it lists the options and prompts; choice 6 reads the month
\* key right after the pick
CliChoose(choice) ==
  /\ prog = "console" /\ pc = "menu"
  /\ \E options \in {IF choice = "8" THEN state.categories ELSE state.people} :
        IF options = <<>>
        THEN /\ last' = Step("", FALSE, "none", FALSE)
             /\ UNCHANGED <<pc, pend>>
        ELSE /\ choice # "6" => NumRecords(state) < MaxRecords
             /\ pc' = "pick"
             /\ pend' = [NoPend EXCEPT !.cmd = choice]
             /\ last' = Step("", FALSE, "none", FALSE)
  /\ summary' = NoSummary
  /\ UNCHANGED <<prog, state, disk, clock, today>>

\* the prompt of pick_from_list: Enter cancels, a number in range picks, anything
\* else asks again
CliPick(text) ==
  /\ prog = "console" /\ pc = "pick"
  /\ \E options \in {IF pend.cmd = "8" THEN state.categories ELSE state.people},
        s \in {Strip(text)} :
        IF s = <<>>
        THEN /\ pc' = "menu"
             /\ pend' = NoPend
             /\ last' = Step("", FALSE, "none", FALSE)
        ELSE IF AllDigits(s) /\ 1 <= DigitsVal(s) /\ DigitsVal(s) <= Len(options)
        THEN /\ pc' = "amount"
             /\ pend' = [pend EXCEPT !.who = options[DigitsVal(s)],
                                     !.month = MonthKey(clock)]
             /\ last' = Step("", FALSE, "none", FALSE)
        ELSE /\ last' = Step("", FALSE, "none", FALSE)
             /\ UNCHANGED <<pc, pend>>
  /\ summary' = NoSummary
  /\ UNCHANGED <<prog, state, disk, clock, today>>

\* one prompt of input_decimal.  ValueError asks again; InvalidOperation is not
\* caught and ends the program.  For choice 6 the amount completes the command:
\* set_monthly_income, then save_state.  For 7 and 8 the date prompt follows, with
\* date.today() as its default.
CliAmount(text) ==
  /\ prog = "console" /\ pc = "amount"
  /\ \E r \in {d(ReplaceComma(Strip(text)))} :
        IF r.exc = "ValueError"
        THEN /\ last' = Step("record", FALSE, "failed", FALSE)
             /\ UNCHANGED <<pc, pend, state, disk>>
        ELSE IF r.exc # "none"
        THEN /\ pc' = "crashed"
             /\ pend' = NoPend
             /\ last' = Step("record", FALSE, "failed", FALSE)
             /\ UNCHANGED <<state, disk>>
        ELSE IF pend.cmd = "6"
        THEN /\ HasPair(state, pend.who, pend.month) \/ NumRecords(state) < MaxRecords
             /\ state' = set_monthly_income(state, pend.who, r.val, pend.month)
             /\ disk' = save_state(state')
             /\ pc' = "menu"
             /\ pend' = NoPend
             /\ last' = StepSet(state, pend.who, r.val, pend.month)
        ELSE /\ pc' = "date"
             /\ pend' = [pend EXCEPT !.amount = r.val, !.dt = clock]
             /\ last' = Step("record", FALSE, "ok", FALSE)
             /\ UNCHANGED <<state, disk>>
  /\ summary' = NoSummary
  /\ UNCHANGED <<prog, clock, today>>

\* one prompt of input_date: Enter takes the default, a ValueError asks again
CliDate(text) ==
  /\ prog = "console" /\ pc = "date"
  /\ \E s \in {Strip(text)}, r \in {parse_date(text)} :
        IF s = <<>>
        THEN /\ pc' = "note"
             /\ last' = Step("record", FALSE, "ok", FALSE)
             /\ UNCHANGED pend
        ELSE IF r.exc = "none"
        THEN /\ pc' = "note"
             /\ pend' = [pend EXCEPT !.dt = r.val]
             /\ last' = Step("record", FALSE, "ok", FALSE)
        ELSE /\ last' = Step("record", FALSE, "failed", FALSE)
             /\ UNCHANGED <<pc, pend>>
  /\ summary' = NoSummary
  /\ UNCHANGED <<prog, state, disk, clock, today>>

\* the last prompt of choices 7 and 8 without the save_state that follows
CliNote_unsaved(text) ==
  /\ prog = "console" /\ pc = "note"
  /\ state' = IF pend.cmd = "7"
              THEN add_extra_income(state, pend.who, pend.amount, pend.dt, text)
              ELSE add_expense(state, pend.amount, pend.who, pend.dt, text)
  /\ pc' = "menu"
  /\ pend' = NoPend
  /\ last' = Step("record", TRUE, "ok", FALSE)
  /\ summary' = NoSummary
  /\ UNCHANGED <<prog, disk, clock, today>>

\* the note is read; add_extra_income or add_expense, then save_state
CliNote(text) ==
  /\ prog = "console" /\ pc = "note"
  /\ state' = IF pend.cmd = "7"
              THEN add_extra_income(state, pend.who, pend.amount, pend.dt, text)
              ELSE add_expense(state, pend.amount, pend.who, pend.dt, text)
  /\ disk' = save_state(state')
  /\ pc' = "menu"
  /\ pend' = NoPend
  /\ last' = Step("record", TRUE, "ok", TRUE)
  /\ summary' = NoSummary
  /\ UNCHANGED <<prog, clock, today>>

\* choice 9
CliExit ==
  /\ prog = "console" /\ pc = "menu"
  /\ pc' = "exit"
  /\ last' = Step("", FALSE, "none", FALSE)
  /\ summary' = NoSummary
  /\ UNCHANGED <<prog, state, disk, clock, today, pend>>

(***************************************************************************)
(* control_gastos_app.py: class App                                        *)
(***************************************************************************)
\* a combobox that is not read-only: any typed text may be in it
ComboChoices_editable(values) == Range(values) \cup PersonTexts \cup CategoryTexts

\* what a read-only combobox holds after refresh_lists(): one of the list's
\* values (the first is preselected, the user may choose another), or the empty
\* text while the list is empty
ComboChoices(values) == IF values = <<>> THEN {<<>>} ELSE Range(values)

\* what a date entry may hold: the prefilled self.today.isoformat() or an edit
DateEntryTexts(day) == DateTexts \cup {IsoFormat(day)}

\* App.__init__: load_state, today = date.today(), refresh_summary
AppBoot ==
  /\ prog = "app" /\ pc = "boot"
  /\ \E r \in {App_load_state(disk)} :
        /\ state' = r.state
        /\ disk' = r.disk
        /\ last' = Step("load", TRUE, "none", r.wrote)
  /\ today' = clock
  /\ summary' = refresh_summary(state', today')
  /\ pc' = "idle"
  /\ UNCHANGED <<prog, clock, pend>>

\* the button "Actualizar": App.refresh_summary
AppRefreshSummary ==
  /\ prog = "app" /\ pc = "idle"
  /\ summary' = refresh_summary(state, today)
  /\ last' = Step("", FALSE, "none", FALSE)
  /\ UNCHANGED <<prog, pc, state, disk, clock, today, pend>>

\* App.add_category with the entry's text
AppAddCategory(text) ==
  /\ prog = "app" /\ pc = "idle"
  /\ \E r \in {App_ensure_unique_add(state.categories, text)} :
        /\ r.ret => Len(state.categories) < MaxNames
        /\ state' = [state EXCEPT !.categories = r.lst]
        /\ disk' = IF r.ret THEN save_state(state') ELSE disk
        /\ last' = Step("add", r.ret, "none", r.ret)
  /\ UNCHANGED <<prog, pc, clock, today, pend, summary>>

\* App.add_person with the entry's text
AppAddPerson(text) ==
  /\ prog = "app" /\ pc = "idle"
  /\ \E r \in {App_ensure_unique_add(state.people, text)} :
        /\ r.ret => Len(state.people) < MaxNames
        /\ state' = [state EXCEPT !.people = r.lst]
        /\ disk' = IF r.ret THEN save_state(state') ELSE disk
        /\ last' = Step("add", r.ret, "none", r.ret)
  /\ UNCHANGED <<prog, pc, clock, today, pend, summary>>

\* App.save_monthly_income that takes an amount it cannot read as zero
AppSaveMonthlyIncome_zero(choice, amt_s) ==
  /\ prog = "app" /\ pc = "idle"
  /\ \E person \in {Strip(choice)}, r \in {App_d(Strip(amt_s))} :
        IF person = <<>>
        THEN /\ last' = Step("record", FALSE, "none", FALSE)
             /\ UNCHANGED <<state, disk, summary>>
        ELSE /\ HasPair(state, person, MonthKey(today)) \/ NumRecords(state) < MaxRecords
             /\ state' = App_set_monthly_income(state, person, r.val, MonthKey(today))
             /\ disk' = save_state(state')
             /\ summary' = refresh_summary(state', today)
             /\ last' = [StepSet(state, person, r.val, MonthKey(today)) EXCEPT
                           !.parse = IF r.exc = "none" THEN "ok" ELSE "failed"]
  /\ UNCHANGED <<prog, pc, clock, today, pend>>

\* App.save_monthly_income: only ValueError is caught, so InvalidOperation leaves
\* the handler through Tk's callback report; nothing was changed by then
AppSaveMonthlyIncome(choice, amt_s) ==
  /\ prog = "app" /\ pc = "idle"
  /\ \E person \in {Strip(choice)}, r \in {App_d(Strip(amt_s))} :
        IF person = <<>>
        THEN /\ last' = Step("record", FALSE, "none", FALSE)
             /\ UNCHANGED <<state, disk, summary>>
        ELSE IF r.exc # "none"
        THEN /\ last' = Step("record", FALSE, "failed", FALSE)
             /\ UNCHANGED <<state, disk, summary>>
        ELSE /\ HasPair(state, person, MonthKey(today)) \/ NumRecords(state) < MaxRecords
             /\ state' = App_set_monthly_income(state, person, r.val, MonthKey(today))
             /\ disk' = save_state(state')
             /\ summary' = refresh_summary(state', today)
             /\ last' = StepSet(state, person, r.val, MonthKey(today))
  /\ UNCHANGED <<prog, pc, clock, today, pend>>

\* App.save_extra_income: amount and date are parsed under "except Exception"
AppSaveExtraIncome(choice, amt_s, date_s, note_s) ==
  /\ prog = "app" /\ pc = "idle"
  /\ \E person \in {Strip(choice)}, amt \in {App_d(Strip(amt_s))},
        dt \in {App_parse_date(Strip(date_s))} :
        IF person = <<>>
        THEN /\ last' = Step("record", FALSE, "none", FALSE)
             /\ UNCHANGED <<state, disk, summary>>
        ELSE IF amt.exc # "none" \/ dt.exc # "none"
        THEN /\ last' = Step("record", FALSE, "failed", FALSE)
             /\ UNCHANGED <<state, disk, summary>>
        ELSE /\ NumRecords(state) < MaxRecords
             /\ state' = App_add_extra_income(state, person, amt.val, dt.val, Strip(note_s))
             /\ disk' = save_state(state')
             /\ summary' = refresh_summary(state', today)
             /\ last' = Step("record", TRUE, "ok", TRUE)
  /\ UNCHANGED <<prog, pc, clock, today, pend>>

\* App.save_expense
AppSaveExpense(choice, amt_s, date_s, note_s) ==
  /\ prog = "app" /\ pc = "idle"
  /\ \E cat \in {Strip(choice)}, amt \in {App_d(Strip(amt_s))},
        dt \in {App_parse_date(Strip(date_s))} :
        IF cat = <<>>
        THEN /\ last' = Step("record", FALSE, "none", FALSE)
             /\ UNCHANGED <<state, disk, summary>>
        ELSE IF amt.exc # "none" \/ dt.exc # "none"
        THEN /\ last' = Step("record", FALSE, "failed", FALSE)
             /\ UNCHANGED <<state, disk, summary>>
        ELSE /\ NumRecords(state) < MaxRecords
             /\ state' = App_add_expense(state, cat, amt.val, dt.val, Strip(note_s))
             /\ disk' = save_state(state')
             /\ summary' = refresh_summary(state', today)
             /\ last' = Step("record", TRUE, "ok", TRUE)
  /\ UNCHANGED <<prog, pc, clock, today, pend>>

Next ==
  \/ Tick
  \/ CliBoot
  \/ CliDashboard
  \/ \E text \in CategoryTexts : CliAddCategory(text)
  \/ \E text \in PersonTexts : CliAddPerson(text)
  \/ \E choice \in {"3", "5", "x"} : CliList(choice)
  \/ \E choice \in {"6", "7", "8"} : CliChoose(choice)
  \/ \E text \in PickTexts : CliPick(text)
  \/ \E text \in AmountTexts : CliAmount(text)
  \/ \E text \in DateTexts \cup {<<>>} : CliDate(text)
  \/ \E text \in NoteTexts : CliNote(text)
  \/ CliExit
  \/ AppBoot
  \/ AppRefreshSummary
  \/ \E text \in CategoryTexts : AppAddCategory(text)
  \/ \E text \in PersonTexts : AppAddPerson(text)
  \/ \E choice \in ComboChoices(state.people), amt_s \in AmountTexts :
       AppSaveMonthlyIncome(choice, amt_s)
  \/ \E choice \in ComboChoices(state.people), amt_s \in AmountTexts,
        date_s \in DateEntryTexts(today), note_s \in NoteTexts :
       AppSaveExtraIncome(choice, amt_s, date_s, note_s)
  \/ \E choice \in ComboChoices(state.categories), amt_s \in AmountTexts,
        date_s \in DateEntryTexts(today), note_s \in NoteTexts :
       AppSaveExpense(choice, amt_s, date_s, note_s)

Spec == Init /\ [][Next]_vars

(***************************************************************************)
(* The core called directly: any sequence of set_monthly_income,           *)
(* add_extra_income and add_expense from the default state, and the        *)
(* summary of the result on a reference day                                *)
(***************************************************************************)
\* reference days: two days before the end of December and of a leap February
\* (two days left), the middle of a 30-day month, the first day of a year
TotalsDays == {Date(2023, 12, 30), Date(2024, 2, 28), Date(2023, 11, 15), Date(2024, 1, 1)}

\* record dates on both sides of the month boundaries around those days
TotalsDates ==
  {Date(2023, 11, 30), Date(2023, 12, 1), Date(2023, 12, 31), Date(2024, 1, 1),
   Date(2024, 2, 29), Date(2024, 3, 1)}

TotalsMonths == {MonthKey(day) : day \in TotalsDays}

\* amounts in cents
TotalsAmounts == {1, 2}

InitTotals ==
  /\ prog = "core"
  /\ pc = "core"
  /\ state = default_state
  /\ disk = NoFile
  /\ clock \in TotalsDays
  /\ today = clock
  /\ pend = NoPend
  /\ last = Step("", FALSE, "none", FALSE)
  /\ summary = NoSummary

CoreSetMonthlyIncome(amount, month_key) ==
  /\ pc = "core"
  /\ HasPair(state, <<"B">>, month_key) \/ NumRecords(state) < MaxRecords
  /\ state' = set_monthly_income(state, <<"B">>, amount, month_key)
  /\ prog' = "core"
  /\ summary' = NoSummary
  /\ last' = Step("record", TRUE, "ok", FALSE)
  /\ UNCHANGED <<pc, disk, clock, today, pend>>

CoreAddExtraIncome(amount, dt) ==
  /\ pc = "core"
  /\ NumRecords(state) < MaxRecords
  /\ state' = add_extra_income(state, <<"B">>, amount, dt, <<>>)
  /\ prog' = "core"
  /\ summary' = NoSummary
  /\ last' = Step("record", TRUE, "ok", FALSE)
  /\ UNCHANGED <<pc, disk, clock, today, pend>>

CoreAddExpense(amount, dt) ==
  /\ pc = "core"
  /\ NumRecords(state) < MaxRecords
  /\ state' = add_expense(state, amount, <<"a">>, dt, <<>>)
  /\ prog' = "core"
  /\ summary' = NoSummary
  /\ last' = Step("record", TRUE, "ok", FALSE)
  /\ UNCHANGED <<pc, disk, clock, today, pend>>

\* totals_for_month and remaining_and_per_day of control_gastos.py on the day
CoreSummary ==
  /\ pc = "core"
  /\ summary' = show_dashboard(state, clock)
  /\ prog' = "console"
  /\ last' = Step("", FALSE, "none", FALSE)
  /\ UNCHANGED <<pc, state, disk, clock, today, pend>>

\* the summary computed by control_gastos_app.py on the day
CoreAppSummary ==
  /\ pc = "core"
  /\ summary' = refresh_summary(state, today)
  /\ prog' = "app"
  /\ last' = Step("", FALSE, "none", FALSE)
  /\ UNCHANGED <<pc, state, disk, clock, today, pend>>

NextTotals ==
  \/ \E amount \in TotalsAmounts, month_key \in TotalsMonths :
       CoreSetMonthlyIncome(amount, month_key)
  \/ \E amount \in TotalsAmounts, dt \in TotalsDates : CoreAddExtraIncome(amount, dt)
  \/ \E amount \in TotalsAmounts, dt \in TotalsDates : CoreAddExpense(amount, dt)
  \/ CoreSummary
  \/ CoreAppSummary

SpecTotals == InitTotals /\ [][NextTotals]_vars

(***************************************************************************)
(* The calendar helpers on every day of some years                         *)
(***************************************************************************)
\* a common and a leap year, a century that is no leap year and one that is
CalendarYears == {1900, 2000, 2023, 2024}

CalendarDays ==
  {dt \in [year : CalendarYears, month : 1..12, day : 1..31] :
     dt.day <= DaysInMonth(dt.year, dt.month)}

InitCalendar ==
  /\ prog = "core"
  /\ pc = "calendar"
  /\ state = default_state
  /\ disk = NoFile
  /\ clock \in CalendarDays
  /\ today = clock
  /\ pend = NoPend
  /\ last = Step("", FALSE, "none", FALSE)
  /\ summary = NoSummary

\* days_remaining_in_month(clock), and month_end(clock) kept in today
CalDaysRemaining ==
  /\ pc = "calendar"
  /\ summary' = [NoSummary EXCEPT !.days_left = days_remaining_in_month(clock)]
  /\ today' = month_end(clock)
  /\ pc' = "done"
  /\ UNCHANGED <<prog, state, disk, clock, pend, last>>

NextCalendar == CalDaysRemaining

SpecCalendar == InitCalendar /\ [][NextCalendar]_vars

(***************************************************************************)
(* The two programs side by side: the same core calls with the same        *)
(* arguments go to control_gastos.py and to control_gastos_app.py, each on *)
(* its own ledger; state and summary hold one value per program            *)
(***************************************************************************)
\* two reference days either side of a year's end, and a record date in the
\* month of each
BothDays == {Date(2023, 12, 30), Date(2024, 1, 1)}
BothDates == {Date(2023, 12, 31), Date(2024, 1, 1)}
BothMonths == {MonthKey(day) : day \in BothDays}
BothAmounts == {-1, 2}
BothNames == CategoryTexts

Both(console, app) == [console |-> console, app |-> app]

InitBoth ==
  /\ prog = "both"
  /\ pc = "core"
  /\ state = Both(default_state, default_state)
  /\ disk = NoFile
  /\ clock \in BothDays
  /\ today = clock
  /\ pend = NoPend
  /\ last = Step("", FALSE, "none", FALSE)
  /\ summary = Both(NoSummary, NoSummary)

\* ensure_unique_add(state["categories"], text) in both programs; last.ok holds
\* whether the two calls returned the same value
BothAddCategory(text) ==
  /\ pc = "core"
  /\ \E r \in {ensure_unique_add(state.console.categories, text)},
        q \in {App_ensure_unique_add(state.app.categories, text)} :
        /\ r.ret => Len(state.console.categories) < MaxNames
        /\ state' = Both([state.console EXCEPT !.categories = r.lst],
                         [state.app EXCEPT !.categories = q.lst])
        /\ last' = Step("add", r.ret = q.ret, "none", FALSE)
  /\ summary' = Both(NoSummary, NoSummary)
  /\ UNCHANGED <<prog, pc, disk, clock, today, pend>>

\* ensure_unique_add(state["people"], text) in both programs
BothAddPerson(text) ==
  /\ pc = "core"
  /\ \E r \in {ensure_unique_add(state.console.people, text)},
        q \in {App_ensure_unique_add(state.app.people, text)} :
        /\ r.ret => Len(state.console.people) < MaxNames
        /\ state' = Both([state.console EXCEPT !.people = r.lst],
                         [state.app EXCEPT !.people = q.lst])
        /\ last' = Step("add", r.ret = q.ret, "none", FALSE)
  /\ summary' = Both(NoSummary, NoSummary)
  /\ UNCHANGED <<prog, pc, disk, clock, today, pend>>

BothSetMonthlyIncome(amount, month_key) ==
  /\ pc = "core"
  /\ HasPair(state.console, <<"B">>, month_key) \/ NumRecords(state.console) < MaxRecords
  /\ state' = Both(set_monthly_income(state.console, <<"B">>, amount, month_key),
                   App_set_monthly_income(state.app, <<"B">>, amount, month_key))
  /\ last' = Step("record", TRUE, "none", FALSE)
  /\ summary' = Both(NoSummary, NoSummary)
  /\ UNCHANGED <<prog, pc, disk, clock, today, pend>>

BothAddExtraIncome(amount, dt, note) ==
  /\ pc = "core"
  /\ NumRecords(state.console) < MaxRecords
  /\ state' = Both(add_extra_income(state.console, <<"B">>, amount, dt, note),
                   App_add_extra_income(state.app, <<"B">>, amount, dt, note))
  /\ last' = Step("record", TRUE, "none", FALSE)
  /\ summary' = Both(NoSummary, NoSummary)
  /\ UNCHANGED <<prog, pc, disk, clock, today, pend>>

BothAddExpense(amount, dt, note) ==
  /\ pc = "core"
  /\ NumRecords(state.console) < MaxRecords
  /\ state' = Both(add_expense(state.console, amount, <<"a">>, dt, note),
                   App_add_expense(state.app, <<"a">>, amount, dt, note))
  /\ last' = Step("record", TRUE, "none", FALSE)
  /\ summary' = Both(NoSummary, NoSummary)
  /\ UNCHANGED <<prog, pc, disk, clock, today, pend>>

\* show_dashboard of the console and refresh_summary of the app on the day
BothSummary ==
  /\ pc = "core"
  /\ summary' = Both(show_dashboard(state.console, clock),
                     refresh_summary(state.app, today))
  /\ last' = Step("", FALSE, "none", FALSE)
  /\ UNCHANGED <<prog, pc, state, disk, clock, today, pend>>

NextBoth ==
  \/ \E text \in BothNames : BothAddCategory(text)
  \/ \E text \in BothNames : BothAddPerson(text)
  \/ \E amount \in BothAmounts, month_key \in BothMonths :
       BothSetMonthlyIncome(amount, month_key)
  \/ \E amount \in BothAmounts, dt \in BothDates, note \in NoteTexts :
       BothAddExtraIncome(amount, dt, note)
  \/ \E amount \in BothAmounts, dt \in BothDates, note \in NoteTexts :
       BothAddExpense(amount, dt, note)
  \/ BothSummary

SpecBoth == InitBoth /\ [][NextBoth]_vars


(***************************************************************************)
(* Properties                                                              *)
(***************************************************************************)
\* the rows of monthly_incomes have distinct (person, month) pairs
NoDupMonthly(st) ==
  \A i, j \in 1..Len(st.monthly_incomes) :
    /\ st.monthly_incomes[i].person = st.monthly_incomes[j].person
    /\ st.monthly_incomes[i].month = st.monthly_incomes[j].month
    => i = j

\* C1: monthly_incomes holds at most one record per (person, month) pair after
\* every step, and a set_monthly_income call for a pair that is already there
\* leaves the number of records as it was and leaves that pair's record with
\* the amount of the call.
C1_MonthlyIncomeUpsert ==
  [][/\ NoDupMonthly(state')
     /\ last'.call # NoCall /\ HasPair(state, last'.call.person, last'.call.month)
        => /\ Len(state'.monthly_incomes) = Len(state.monthly_incomes)
           /\ \E i \in 1..Len(state.monthly_incomes) :
                /\ state.monthly_incomes[i].person = last'.call.person
                /\ state.monthly_incomes[i].month = last'.call.month
                /\ state'.monthly_incomes[i] =
                     [state.monthly_incomes[i] EXCEPT
                        !.amount = DecStr(last'.call.amount)]]_vars

\* a call for a pair that was already there has just set its amount, next to
\* another pair's record, and the file holds it
C1_Witness ==
  /\ last.call.existed
  /\ Len(state.monthly_incomes) = 2
  /\ \E i \in 1..2 :
       /\ state.monthly_incomes[i].person = last.call.person
       /\ state.monthly_incomes[i].month = last.call.month
       /\ state.monthly_incomes[i].amount = DecStr(last.call.amount)
       /\ disk.content.monthly_incomes[i].amount = DecStr(last.call.amount)

\* C2: no two entries of the categories list, and none of the people list, are
\* equal ignoring case.
C2_NoCaseInsensitiveDuplicates ==
  \A lst \in {state.categories, state.people} :
    \A i, j \in 1..Len(lst) : Lower(lst[i]) = Lower(lst[j]) => i = j

\* C3: a step whose amount or date failed to parse leaves the ledger in memory
\* as it was, and the file too: it does not call save_state.
C3_FailedParseChangesNothing ==
  [][last'.parse = "failed" => state' = state /\ disk' = disk /\ ~last'.wrote]_vars

\* an amount or a date has just been refused while the ledger holds records
C3_Witness == last.parse = "failed" /\ NumRecords(state) = 2 /\ ~last.wrote

\* C4: a step that changed the ledger in memory called save_state with the
\* whole ledger before the next command is read, and whenever the program
\* waits for the next command the file holds exactly the ledger in memory.
C4_SavedAfterEveryMutation ==
  [][/\ pc # "boot" /\ state' # state
        => last'.wrote /\ disk'.exists /\ disk'.content = state'
     /\ pc' \in {"menu", "idle"} => disk'.exists /\ disk'.content = state']_vars

\* a record command has just been saved and the program waits again
C4_Witness ==
  /\ pc \in {"menu", "idle"}
  /\ last.op = "record" /\ last.wrote
  /\ Len(state.expenses) = 1 /\ Len(state.extra_incomes) = 1

\* the amounts of the rows picked by an index set, added up
RECURSIVE SumAmounts(_, _)
SumAmounts(rows, picked) ==
  IF picked = {} THEN 0
  ELSE LET i == CHOOSE k \in picked : TRUE
       IN d(rows[i].amount).val + SumAmounts(rows, picked \ {i})

\* the row's date lies in the calendar month of day
InMonthOf(row, day) ==
  /\ parse_date(row.dt).val.year = day.year
  /\ parse_date(row.dt).val.month = day.month

\* C5: a computed summary shows as base income the sum of the monthly incomes
\* whose month is the YYYY-MM of the reference day, and as extra income and
\* expenses the sums of the rows dated in the calendar month of that day; rows
\* of any other month add nothing.
C5_TotalsOfTheCalendarMonth ==
  summary # NoSummary =>
    /\ summary.base =
         SumAmounts(state.monthly_incomes,
                    {i \in 1..Len(state.monthly_incomes) :
                       state.monthly_incomes[i].month = MonthKey(clock)})
    /\ summary.extra =
         SumAmounts(state.extra_incomes,
                    {i \in 1..Len(state.extra_incomes) :
                       InMonthOf(state.extra_incomes[i], clock)})
    /\ summary.exp =
         SumAmounts(state.expenses,
                    {i \in 1..Len(state.expenses) : InMonthOf(state.expenses[i], clock)})

\* the summary of a leap February that counts an expense of the 29th and leaves
\* out an extra income of March 1st
C5_Witness ==
  /\ prog = "console" /\ summary # NoSummary
  /\ clock = Date(2024, 2, 28)
  /\ Len(state.expenses) = 1 /\ state.expenses[1].dt = IsoFormat(Date(2024, 2, 29))
  /\ Len(state.extra_incomes) = 1 /\ state.extra_incomes[1].dt = IsoFormat(Date(2024, 3, 1))
  /\ summary.exp > 0 /\ summary.extra = 0

\* n / k in cents rounded half up: a tie goes away from zero
RoundHalfUp(n, k) ==
  IF n >= 0 THEN (2 * n + k) \div (2 * k) ELSE -((2 * (-n) + k) \div (2 * k))

\* C6: a computed summary shows per_day = remaining / days_left rounded to two
\* places half up, where remaining = base + extra - expenses.
C6_PerDayRoundsHalfUp ==
  summary # NoSummary =>
    /\ summary.remaining = summary.base + summary.extra - summary.exp
    /\ summary.per_day = RoundHalfUp(summary.remaining, summary.days_left)

\* the day following day is in another month
IsLastDayOfMonth(day) == FromOrdinal(ToOrdinal(day) + 1).month # day.month

\* C7: days_remaining_in_month of a day is at least 1, and it is exactly 1 on
\* the last day of a month.
C7_DaysRemainingAtLeastOne ==
  pc = "done" =>
    /\ summary.days_left >= 1
    /\ IsLastDayOfMonth(clock) => summary.days_left = 1

\* the days left on the 29th of a leap February
C7_Witness == pc = "done" /\ clock = Date(2024, 2, 29) /\ summary.days_left = 1

\* s is a prefix of t
IsPrefix(s, t) == Len(s) <= Len(t) /\ SubSeq(t, 1, Len(s)) = s

\* C8: in every step the extra incomes and the expenses before it are a prefix
\* of those after it; a step that added an extra income or an expense added
\* exactly one row; and no monthly income is removed, and none is changed
\* except the one with the person and month of a set_monthly_income call.
C8_RecordsAppendOnly ==
  [][/\ IsPrefix(state.extra_incomes, state'.extra_incomes)
     /\ IsPrefix(state.expenses, state'.expenses)
     /\ last'.op = "record" /\ last'.ok /\ last'.call = NoCall /\ last' # last
        => Len(state'.extra_incomes) + Len(state'.expenses)
             = Len(state.extra_incomes) + Len(state.expenses) + 1
     /\ Len(state.monthly_incomes) <= Len(state'.monthly_incomes)
     /\ \A i \in 1..Len(state.monthly_incomes) :
          \/ state'.monthly_incomes[i] = state.monthly_incomes[i]
          \/ /\ state.monthly_incomes[i].person = last'.call.person
             /\ state.monthly_incomes[i].month = last'.call.month
             /\ state'.monthly_incomes[i].person = last'.call.person
             /\ state'.monthly_incomes[i].month = last'.call.month]_vars

\* a second expense has just been appended after the first
C8_Witness == last.op = "record" /\ last.ok /\ Len(state.expenses) = 2

\* the list is in case-insensitive order and holds trimmed, non-empty names
SortedTrimmed(lst) ==
  /\ \A i, j \in 1..Len(lst) : i < j => ~StrLess(Lower(lst[j]), Lower(lst[i]))
  /\ \A i \in 1..Len(lst) : lst[i] # <<>> /\ Strip(lst[i]) = lst[i]

\* C9: after every step the categories and the people are each in
\* case-insensitive order and hold only trimmed, non-empty names, an add that
\* returned false left both lists as they were, and ensure_unique_add of an
\* empty or blank name on either list returns false with the list as it was.
C9_ListsSortedAndTrimmed ==
  [][/\ SortedTrimmed(state'.categories)
     /\ SortedTrimmed(state'.people)
     /\ last'.op = "add" /\ ~last'.ok
        => state'.categories = state.categories /\ state'.people = state.people
     /\ \A lst \in {state'.categories, state'.people} :
          \A text \in CategoryTexts \cup PersonTexts :
            Strip(text) = <<>>
              => ensure_unique_add(lst, text) = [ret |-> FALSE, lst |-> lst]]_vars

\* "a" was added after "B" and stands before it
C9_Witness ==
  /\ last.op = "add" /\ last.ok
  /\ state.people = <<<<"a">>, <<"B">>>>
  /\ Len(state.categories) = 2

\* C10: load_state with no file yields the five fields, all empty, and saves
\* that state; with a file it yields the file's content and writes nothing.
C10_LoadState ==
  [][pc = "boot" /\ pc' # "boot" =>
       IF ~disk.exists
       THEN /\ state' = [categories |-> <<>>, people |-> <<>>, monthly_incomes |-> <<>>,
                         extra_incomes |-> <<>>, expenses |-> <<>>]
            /\ disk'.exists /\ disk'.content = state'
            /\ last'.wrote
       ELSE /\ state' = disk.content
            /\ disk' = disk
            /\ ~last'.wrote]_vars

\* the program has just started on an earlier run's file
C10_Witness ==
  /\ last.op = "load" /\ ~last.wrote
  /\ state = PriorState /\ disk.exists /\ disk.content = PriorState

\* C11: a step that only computes the summary (choice 1 of the menu, the
\* button "Actualizar" of the form) leaves the ledger in memory and the file
\* exactly as they were.
C11_SummaryChangesNothing ==
  [][pc # "boot" /\ last'.op = "" /\ summary' # NoSummary
       => state' = state /\ disk' = disk]_vars

\* a summary with expenses in it has just been shown and the records are there
C11_Witness ==
  /\ pc \in {"menu", "idle"}
  /\ last.op = "" /\ summary # NoSummary /\ summary.exp > 0
  /\ NumRecords(state) = 2 /\ disk = File(state)

\* C12: given the same core calls with the same arguments and the same today,
\* the console program and the desktop program hold the same ledger, lists
\* and records field by field, every add returned the same value in both, and
\* their summaries show the same month, base income, extra income, total,
\* expenses, remaining, days left and per-day value.
C12_ConsoleAndAppAgree ==
  /\ state.console = state.app
  /\ summary.console = summary.app
  /\ last.op = "add" => last.ok

\* both programs hold two names and two records and have just shown a summary
\* with a negative remaining
C12_Witness ==
  /\ prog = "both"
  /\ summary.app # NoSummary /\ summary.app.remaining < 0
  /\ Len(state.app.people) = 2 /\ NumRecords(state.app) = 2
  /\ Len(state.console.expenses) = 1

\* every record names an entry of its list
Referenced(st) ==
  /\ \A i \in 1..Len(st.expenses) : st.expenses[i].category \in Range(st.categories)
  /\ \A i \in 1..Len(st.monthly_incomes) : st.monthly_incomes[i].person \in Range(st.people)
  /\ \A i \in 1..Len(st.extra_incomes) : st.extra_incomes[i].person \in Range(st.people)

\* C13: after every step of the menu or the form, every expense's category is
\* an entry of categories and every monthly or extra income's person is an
\* entry of people; and a command given while people (resp. categories) is
\* empty adds no income (resp. expense) record.
C13_RecordsNameListEntries ==
  [][/\ Referenced(state')
     /\ pc # "boot" /\ state.people = <<>>
        => /\ state'.monthly_incomes = state.monthly_incomes
           /\ state'.extra_incomes = state.extra_incomes
     /\ pc # "boot" /\ state.categories = <<>>
        => state'.expenses = state.expenses]_vars

\* an expense of the second category and an extra income of the second person
\* have been recorded
C13_Witness ==
  /\ Len(state.categories) = 2 /\ Len(state.people) = 2
  /\ Len(state.expenses) = 1 /\ state.expenses[1].category = state.categories[2]
  /\ Len(state.extra_incomes) = 1 /\ state.extra_incomes[1].person = state.people[2]

====
